---- MODULE Spec2Model ----
(***************************************************************************)
(* mmapio: a uniform handle for mapping a region of a file into memory.    *)
(* The model follows the second listing of mmapio.c (the one with the      *)
(* Unix and the Win32 backend) and mmapio.h.                               *)
(*                                                                         *)
(* The operating system is modelled by four tables: the files of the file  *)
(* system, the open native file handles, the open file-mapping objects     *)
(* (Win32) and the mapped views.  The library's heap holds the backend     *)
(* structs (table `handles`) and the converted file-name buffers (counter  *)
(* `nbuf`).  Bit flags are sets of flag names, so the C value 0 is {}.      *)
(***************************************************************************)
EXTENDS Integers, Sequences, FiniteSets, TLC

(* ---- bounds of the model ---- *)
\* the longest UTF-8 file name of the decoder study, in bytes
MaxName == 4
\* the longest mode text the parse study starts from (before padding)
MaxText == 3
\* the byte the caller stores through an acquired pointer (no byte of the file)
StoreByte == 99
\* the largest value of size_t; arithmetic on sizes wraps modulo SizeMax+1
SizeMax == 7
\* the granularity the platform reports when its query succeeds
PageSize == 4
\* the byte length of the file named "file"
FileLen == 5
\* how many regions the caller keeps open at once in SpecLife
MaxLive == 2

(* ---- constants of the program ---- *)
mmapio_os_none == 0
MMAPIO_OS_UNIX == 1
MMAPIO_OS_WIN32 == 2

mmapio_mode_read == 114
mmapio_mode_write == 119
mmapio_mode_end == 101
mmapio_mode_private == 112
mmapio_mode_bequeath == 113
\* a character that is no mode token ('x')
OtherChar == 120
\* mmapio_mode_parse examines at most this many characters
ParseLimit == 8

\* the null pointer, also the failure sentinel of the open functions
NULL == 0
\* what mmap returns when it refuses: (void* )-1
MAP_FAILED == -1
\* what open(2) and CreateFile return when they refuse
INVALID_FD == -1

O_RDONLY == {}
O_RDWR == {"O_RDWR"}
O_CLOEXEC == {"O_CLOEXEC"}
PROT_READ == {"PROT_READ"}
PROT_WRITE == {"PROT_WRITE"}
MAP_SHARED == {"MAP_SHARED"}
MAP_PRIVATE == {"MAP_PRIVATE"}
GENERIC_READ == {"GENERIC_READ"}
GENERIC_WRITE == {"GENERIC_WRITE"}
PAGE_READONLY == {"PAGE_READONLY"}
PAGE_READWRITE == {"PAGE_READWRITE"}
FILE_MAP_READ == {"FILE_MAP_READ"}
FILE_MAP_WRITE == {"FILE_MAP_WRITE"}
FILE_MAP_COPY == {"FILE_MAP_COPY"}

VARIABLES
  build,    \* the build target: [os, ocloexec (is O_CLOEXEC defined)]
  psize,    \* what the platform's granularity query returns
  files,    \* file system: name -> sequence of bytes
  fds,      \* open native file handles: id -> [name, readable, writable, inherit]
  fmds,     \* open file-mapping objects (Win32): id -> [fd, prot, size, inherit]
  views,    \* mapped views: base pointer -> [name, off, len, prot, shared]
  handles,  \* allocated backend structs: address -> [ptr, len, shift, fd, fmd]
  nbuf,     \* converted file-name buffers allocated and not freed
  errno,    \* the C library's errno
  live,     \* the handles the caller was given and has not closed
  plan,     \* the request the driver program was started with (Spec)
  call,     \* the most recent library call: its arguments and what it returned
  child,    \* the file handles that spawned child processes have inherited
  wrote,    \* the stores the caller made through acquired pointers: [pos, val]
  input,    \* the argument of the conversion under study (SpecParse, SpecU8)
  output    \* what the conversion under study made of it

vars == <<build, psize, files, fds, fmds, views, handles, nbuf, errno, live, plan, call,
          child, wrote, input, output>>

\* the library's state and its caller's
libvars == <<build, psize, files, fds, fmds, views, handles, nbuf, errno, live, plan, call>>

\* what no library call touches: the processes spawned, the caller's own
\* stores and the conversions studied on their own
aside == <<child, wrote, input, output>>

(* ---- size_t arithmetic ---- *)
SizeT(x) == x % (SizeMax + 1)

(* ---- tables ---- *)
Slots == 1 .. (MaxLive + 1)
EmptyTable == [x \in {} |-> 0]
HasFree(tbl) == Slots \ DOMAIN tbl # {}
FreeSlot(tbl) == CHOOSE i \in Slots \ DOMAIN tbl : \A j \in Slots \ DOMAIN tbl : i <= j
Drop(tbl, k) == [x \in DOMAIN tbl \ {k} |-> tbl[x]]

\* everything a call can change
World == [files |-> files, fds |-> fds, fmds |-> fmds, views |-> views,
          handles |-> handles, nbuf |-> nbuf, errno |-> errno]

(* ---- mode text ---- *)
\* struct mmapio_mode_tag out = { 0, 0, 0, 0 }
ZeroTag == [mode |-> 0, end |-> 0, privy |-> 0, bequeath |-> 0]

\* a slip the order property detects: the token 'e' resets the private field
ParseChar_end_resets(out, c) ==
  CASE c = mmapio_mode_write    -> [out EXCEPT !.mode = mmapio_mode_write]
    [] c = mmapio_mode_read     -> [out EXCEPT !.mode = mmapio_mode_read]
    [] c = mmapio_mode_end      -> [out EXCEPT !.end = mmapio_mode_end, !.privy = 0]
    [] c = mmapio_mode_private  -> [out EXCEPT !.privy = mmapio_mode_private]
    [] c = mmapio_mode_bequeath -> [out EXCEPT !.bequeath = mmapio_mode_bequeath]
    [] OTHER -> out

\* a slip the noise property detects: a character that is no token starts over
ParseChar_other_resets(out, c) ==
  CASE c = mmapio_mode_write    -> [out EXCEPT !.mode = mmapio_mode_write]
    [] c = mmapio_mode_read     -> [out EXCEPT !.mode = mmapio_mode_read]
    [] c = mmapio_mode_end      -> [out EXCEPT !.end = mmapio_mode_end]
    [] c = mmapio_mode_private  -> [out EXCEPT !.privy = mmapio_mode_private]
    [] c = mmapio_mode_bequeath -> [out EXCEPT !.bequeath = mmapio_mode_bequeath]
    [] OTHER -> ZeroTag

\* one turn of the switch in mmapio_mode_parse
ParseChar(out, c) ==
  CASE c = mmapio_mode_write    -> [out EXCEPT !.mode = mmapio_mode_write]
    [] c = mmapio_mode_read     -> [out EXCEPT !.mode = mmapio_mode_read]
    [] c = mmapio_mode_end      -> [out EXCEPT !.end = mmapio_mode_end]
    [] c = mmapio_mode_private  -> [out EXCEPT !.privy = mmapio_mode_private]
    [] c = mmapio_mode_bequeath -> [out EXCEPT !.bequeath = mmapio_mode_bequeath]
    [] OTHER -> out

RECURSIVE ParseFrom_past_nul(_, _, _)
\* a slip the bounded scan detects: a NUL is skipped like any other character
\* that is no token
ParseFrom_past_nul(mmode, i, out) ==
  IF i >= ParseLimit \/ i >= Len(mmode) THEN out
  ELSE ParseFrom_past_nul(mmode, i + 1, ParseChar(out, mmode[i + 1]))

RECURSIVE ParseFrom(_, _, _)
\* the loop of mmapio_mode_parse from index i on; mmode[i+1] is the C mmode[i]
ParseFrom(mmode, i, out) ==
  IF i >= ParseLimit THEN out
  ELSE IF mmode[i + 1] = 0 THEN out
  ELSE ParseFrom(mmode, i + 1, ParseChar(out, mmode[i + 1]))

mmapio_mode_parse(mmode) == ParseFrom(mmode, 0, ZeroTag)

(* ---- the C library and the kernel, as far as the library uses them ---- *)
\* what may go wrong in the environment during one call (at most one thing)
Failures == {"none", "calloc", "namealloc", "open", "fcntl", "map", "view"}

SetErrno(W, e) == [W EXCEPT !.errno = e]

\* a zero-filled backend struct, as calloc returns it
ZeroMmi == [ptr |-> NULL, len |-> 0, shift |-> 0, fd |-> 0, fmd |-> 0]

\* calloc(1, sizeof(struct mmapio_unix)) and calloc(1, sizeof(struct mmapio_win32))
calloc_mmi(W, fail) ==
  IF fail = "calloc" \/ ~HasFree(W.handles)
  THEN [w |-> SetErrno(W, "ENOMEM"), ret |-> NULL]
  ELSE [w |-> [W EXCEPT !.handles = @ @@ (FreeSlot(@) :> ZeroMmi)],
        ret |-> FreeSlot(W.handles)]

\* free(out), free(mu)
free_mmi(W, out) == [W EXCEPT !.handles = Drop(@, out)]

\* close(fd) and CloseHandle(fd) on a file handle
sys_close(W, fd) ==
  IF fd \in DOMAIN W.fds THEN [W EXCEPT !.fds = Drop(@, fd)]
  ELSE SetErrno(W, "EBADF")

\* open(nm, flags) without O_CREAT: the access mode is flags & O_ACCMODE,
\* where O_RDONLY is 0; the descriptor is the lowest free one
sys_open(W, nm, flags, fail) ==
  IF nm \notin DOMAIN W.files THEN [w |-> SetErrno(W, "ENOENT"), ret |-> INVALID_FD]
  ELSE IF fail = "open" THEN [w |-> SetErrno(W, "EACCES"), ret |-> INVALID_FD]
  ELSE IF ~HasFree(W.fds) THEN [w |-> SetErrno(W, "EMFILE"), ret |-> INVALID_FD]
  ELSE [w |-> [W EXCEPT !.fds = @ @@ (FreeSlot(@) :>
                 [name |-> nm, readable |-> TRUE,
                  writable |-> (O_RDWR \subseteq flags),
                  inherit |-> ~(O_CLOEXEC \subseteq flags)])],
        ret |-> FreeSlot(W.fds)]

\* fcntl(fd, F_GETFD) followed by fcntl(fd, F_SETFD, ...): cloexec is the
\* FD_CLOEXEC bit to store; ret < 0 when either call fails
sys_fcntl_setfd(W, fd, cloexec, fail) ==
  IF fail = "fcntl" \/ fd \notin DOMAIN W.fds
  THEN [w |-> SetErrno(W, "EBADF"), ret |-> -1]
  ELSE [w |-> [W EXCEPT !.fds[fd].inherit = ~cloexec], ret |-> 0]

\* mmap(NULL, len, prot, flags, fd, off): MAP_FAILED when refused, never NULL
sys_mmap(W, len, prot, flags, fd, off, fail) ==
  IF len = 0 THEN [w |-> SetErrno(W, "EINVAL"), ret |-> MAP_FAILED]
  ELSE IF fd \notin DOMAIN W.fds THEN [w |-> SetErrno(W, "EBADF"), ret |-> MAP_FAILED]
  ELSE IF (PROT_WRITE \subseteq prot) /\ (MAP_SHARED \subseteq flags) /\ ~W.fds[fd].writable
    THEN [w |-> SetErrno(W, "EACCES"), ret |-> MAP_FAILED]
  ELSE IF fail = "map" \/ ~HasFree(W.views)
    THEN [w |-> SetErrno(W, "ENOMEM"), ret |-> MAP_FAILED]
  ELSE [w |-> [W EXCEPT !.views = @ @@ (FreeSlot(@) :>
                 [name |-> W.fds[fd].name, off |-> off, len |-> len,
                  prot |-> prot, shared |-> (MAP_SHARED \subseteq flags),
                  own |-> EmptyTable])],
        ret |-> FreeSlot(W.views)]

\* a slip the independence of regions detects: unmapping one view of a file
\* takes every view of that file away
sys_munmap_file(W, ptr) ==
  IF ptr \in DOMAIN W.views
  THEN [W EXCEPT !.views = [x \in {y \in DOMAIN @ : @[y].name # @[ptr].name} |-> @[x]]]
  ELSE SetErrno(W, "EINVAL")

\* munmap(ptr, len) and UnmapViewOfFile(ptr): fail on what is no mapping
sys_munmap(W, ptr) ==
  IF ptr \in DOMAIN W.views THEN [W EXCEPT !.views = Drop(@, ptr)]
  ELSE SetErrno(W, "EINVAL")

(* ---- Unix backend ---- *)
mmapio_mode_rw_cvt_unix(mmode, ocloexec) ==
  LET fast_no_bequeath == IF ocloexec THEN O_CLOEXEC ELSE {} IN
  CASE mmode = mmapio_mode_write -> O_RDWR \cup fast_no_bequeath
    [] mmode = mmapio_mode_read  -> O_RDONLY \cup fast_no_bequeath
    [] OTHER -> {}

mmapio_mode_prot_cvt_unix(mmode) ==
  CASE mmode = mmapio_mode_write -> PROT_WRITE \cup PROT_READ
    [] mmode = mmapio_mode_read  -> PROT_READ
    [] OTHER -> {}

mmapio_mode_flag_cvt(mprivy) == IF mprivy # 0 THEN MAP_PRIVATE ELSE MAP_SHARED

\* fstat (GetFileSizeEx on Win32) fails on what is no open handle; then 0
mmapio_file_size_e(W, fd) ==
  IF fd \in DOMAIN W.fds /\ W.fds[fd].name \in DOMAIN W.files
  THEN SizeT(Len(W.files[W.fds[fd].name]))
  ELSE 0

\* a slip the extend-to-end property detects: the token 'e' is not honoured
unix_fix_size_noend(mt, xsz, sz, off) == sz

\* "fix map size": the size the rest of open_rest works with (Unix)
unix_fix_size(mt, xsz, sz, off) ==
  IF mt.end # 0 THEN (IF xsz < off THEN 0 ELSE xsz - off) ELSE sz

\* a slip the range property detects: the guard before the addition is missing
range_fix_failure_never(fullshift, sz) == FALSE

\* "range fix failure": does the guard before fullsize += fullshift fire
range_fix_failure(fullshift, sz) == fullshift >= SizeMax - sz

\* a slip the granularity property detects: the offset is not moved back by
\* the shift
page_fix_keeps_offset(ps, sz, off) ==
  IF ps > 0
  THEN LET fullshift == off % ps IN
       [fail |-> range_fix_failure(fullshift, sz), fullshift |-> fullshift,
        fulloff |-> off, fullsize |-> SizeT(sz + fullshift)]
  ELSE [fail |-> FALSE, fullshift |-> 0, fulloff |-> off, fullsize |-> sz]

\* "fix to page sizes" / "fix to allocation granularity": shift, offset, size
page_fix(ps, sz, off) ==
  IF ps > 0
  THEN LET fullshift == off % ps IN
       [fail |-> range_fix_failure(fullshift, sz), fullshift |-> fullshift,
        fulloff |-> off - fullshift, fullsize |-> SizeT(sz + fullshift)]
  ELSE [fail |-> FALSE, fullshift |-> 0, fulloff |-> off, fullsize |-> sz]

\* a slip the release property detects: a failing gate forgets close(fd)
unix_bail_leak(W, fd, out) == free_mmi(W, out)

\* the release sequence of a failing gate of open_rest (Unix): close(fd); free(out)
unix_bail(W, fd, out) == free_mmi(sys_close(W, fd), out)

\* "initialize the interface" (Unix)
unix_init(W, out, ptr, fullsize, fd, fullshift) ==
  [W EXCEPT !.handles[out] =
     [ptr |-> ptr, len |-> fullsize, shift |-> fullshift, fd |-> fd, fmd |-> 0]]

\* the test the code makes on mmap's result
unix_map_refused(ptr) == ptr = NULL

\* mmapio_open_rest from the mmap call on
unix_map_rest(W, out, fd, mt, fix, fail) ==
  LET m == sys_mmap(W, fix.fullsize, mmapio_mode_prot_cvt_unix(mt.mode),
                    mmapio_mode_flag_cvt(mt.privy), fd, fix.fulloff, fail)
  IN IF unix_map_refused(m.ret)
     THEN [w |-> unix_bail(m.w, fd, out), ret |-> NULL]
     ELSE [w |-> unix_init(m.w, out, m.ret, fix.fullsize, fd, fix.fullshift),
           ret |-> out]

\* a slip the inheritance property detects: FD_CLOEXEC is set whatever the mode says
unix_cloexec_wanted_always(mt) == TRUE

\* "assign the close-on-exec flag": is FD_CLOEXEC to be set (else cleared)
unix_cloexec_wanted(mt) == mt.bequeath = 0

\* "assign the close-on-exec flag" with its failure exit
unix_configure(W, out, fd, mt, fail) ==
  LET fl == sys_fcntl_setfd(W, fd, unix_cloexec_wanted(mt), fail) IN
  IF fl.ret < 0 THEN [w |-> unix_bail(fl.w, fd, out), ret |-> NULL]
  ELSE [w |-> fl.w, ret |-> out]

\* mmapio_open_rest from "fix map size" on
unix_sized_rest(W, out, fd, mt, sz, off, fail) ==
  LET sz1 == unix_fix_size(mt, mmapio_file_size_e(W, fd), sz, off)
      fix == page_fix(psize, sz1, off)
  IN IF fix.fail
     THEN [w |-> SetErrno(unix_bail(W, fd, out), "ERANGE"), ret |-> NULL]
     ELSE unix_map_rest(W, out, fd, mt, fix, fail)

\* mmapio_open_rest after the allocation of out
unix_open_sized(W, out, fd, mt, sz, off, fail) ==
  LET c == unix_configure(W, out, fd, mt, fail) IN
  IF c.ret = NULL THEN c
  ELSE unix_sized_rest(c.w, out, fd, mt, sz, off, fail)

mmapio_open_rest_unix(W, fd, mt, sz, off, fail) ==
  LET a == calloc_mmi(W, fail) IN
  IF a.ret = NULL THEN [w |-> sys_close(a.w, fd), ret |-> NULL]
  ELSE unix_open_sized(a.w, a.ret, fd, mt, sz, off, fail)

(* ---- Win32 kernel calls (they report through GetLastError, not errno) ---- *)
\* CreateFileA / CreateFileW with OPEN_ALWAYS: a missing file is created empty
sys_CreateFile(W, nm, access, inherit, fail) ==
  IF fail = "open" \/ ~HasFree(W.fds) THEN [w |-> W, ret |-> INVALID_FD]
  ELSE LET W1 == IF nm \in DOMAIN W.files THEN W
                 ELSE [W EXCEPT !.files = @ @@ (nm :> <<>>)]
       IN [w |-> [W1 EXCEPT !.fds = @ @@ (FreeSlot(@) :>
                    [name |-> nm, readable |-> (GENERIC_READ \subseteq access),
                     writable |-> (GENERIC_WRITE \subseteq access),
                     inherit |-> inherit])],
           ret |-> FreeSlot(W.fds)]

\* CreateFileMappingA(fd, &cfmsa, prot, maxsize, NULL): NULL when refused.
\* maxsize 0 stands for the file's size; an empty file cannot be mapped; a
\* read-write mapping larger than the file extends the file
sys_CreateFileMapping(W, fd, inherit, prot, maxsize, fail) ==
  LET fsize == Len(W.files[W.fds[fd].name])
      size == IF maxsize = 0 THEN fsize ELSE maxsize
      refused == \/ fail = "map"
                 \/ ~HasFree(W.fmds)
                 \/ prot = {}
                 \/ size = 0
                 \/ (prot = PAGE_READWRITE /\ ~W.fds[fd].writable)
                 \/ ~W.fds[fd].readable
                 \/ (size > fsize /\ prot # PAGE_READWRITE)
      grown == IF size > fsize
               THEN [W EXCEPT !.files[W.fds[fd].name] =
                       @ \o [i \in 1 .. (size - fsize) |-> 0]]
               ELSE W
  IN IF refused THEN [w |-> W, ret |-> NULL]
     ELSE [w |-> [grown EXCEPT !.fmds = @ @@ (FreeSlot(@) :>
                    [fd |-> fd, prot |-> prot, size |-> size, inherit |-> inherit])],
           ret |-> FreeSlot(W.fmds)]

\* CloseHandle(fmd) on a file-mapping object
sys_CloseMapping(W, fmd) ==
  IF fmd \in DOMAIN W.fmds THEN [W EXCEPT !.fmds = Drop(@, fmd)] ELSE W

\* MapViewOfFile(fmd, access, off, bytes): NULL when refused.  The offset must
\* be a multiple of the allocation granularity and the view must lie inside
\* the mapping object; bytes = 0 maps from off to the end of the object.
\* A request with FILE_MAP_WRITE is a read/write view of the object whatever
\* other bits it holds (FILE_MAP_ALL_ACCESS holds the bit of FILE_MAP_COPY
\* too); the view is copy-on-write only when FILE_MAP_COPY comes without it
sys_MapViewOfFile(W, fmd, access, off, bytes, fail) ==
  LET m == W.fmds[fmd]
      len == IF bytes = 0 THEN m.size - off ELSE bytes
      refused == \/ fail = "view"
                 \/ ~HasFree(W.views)
                 \/ access = {}
                 \/ (psize > 0 /\ off % psize # 0)
                 \/ len <= 0
                 \/ off + len > m.size
                 \/ ((FILE_MAP_WRITE \subseteq access) /\ m.prot # PAGE_READWRITE)
  IN IF refused THEN [w |-> W, ret |-> NULL]
     ELSE [w |-> [W EXCEPT !.views = @ @@ (FreeSlot(@) :>
                    [name |-> W.fds[m.fd].name, off |-> off, len |-> len,
                     prot |-> access,
                     shared |-> (FILE_MAP_WRITE \subseteq access)
                                  \/ ~(FILE_MAP_COPY \subseteq access),
                     own |-> EmptyTable])],
           ret |-> FreeSlot(W.views)]

(* ---- Win32 backend ---- *)
mmapio_mode_rw_cvt_win32(mmode) ==
  CASE mmode = mmapio_mode_write -> GENERIC_READ \cup GENERIC_WRITE
    [] mmode = mmapio_mode_read  -> GENERIC_READ
    [] OTHER -> {}

mmapio_mode_prot_cvt_win32(mmode) ==
  CASE mmode = mmapio_mode_write -> PAGE_READWRITE
    [] mmode = mmapio_mode_read  -> PAGE_READONLY
    [] OTHER -> {}

mmapio_mode_access_cvt(mt) ==
  LET flags == CASE mt.mode = mmapio_mode_write -> FILE_MAP_READ \cup FILE_MAP_WRITE
                 [] mt.mode = mmapio_mode_read  -> FILE_MAP_READ
                 [] OTHER -> {}
  IN IF flags = {} THEN {}
     ELSE IF mt.privy # 0 THEN flags \cup FILE_MAP_COPY ELSE flags

\* "fix map size" (Win32): reject is TRUE where the code returns NULL
win32_fix_size(mt, xsz, sz, off) ==
  IF mt.end # 0
  THEN (IF xsz < off THEN [reject |-> TRUE, sz |-> sz]
        ELSE [reject |-> FALSE, sz |-> xsz - off])
  ELSE IF sz = 0 THEN [reject |-> TRUE, sz |-> sz]
  ELSE [reject |-> FALSE, sz |-> sz]

\* "adjust the size": the size of the mapping object, a multiple of ps
win32_extended_size(ps, sz, fullsize) ==
  IF ps > 0
  THEN LET size_shift == fullsize % ps IN
       IF size_shift > 0 THEN SizeT(fullsize + (ps - size_shift)) ELSE fullsize
  ELSE sz

\* "clamp size to end of file"
win32_fullextent(size_clamp, extended_size, fulloff) ==
  IF size_clamp > SizeT(extended_size + fulloff)
  THEN SizeT(extended_size + fulloff)
  ELSE size_clamp

\* the release sequence of a failing gate before the mapping object exists
win32_bail(W, fd, out) == free_mmi(sys_close(W, fd), out)

\* the release sequence when MapViewOfFile fails
win32_bail_view(W, fmd, fd, out) ==
  free_mmi(sys_close(sys_CloseMapping(W, fmd), fd), out)

\* "initialize the interface" (Win32)
win32_init(W, out, ptr, fullsize, fd, fmd, fullshift) ==
  [W EXCEPT !.handles[out] =
     [ptr |-> ptr, len |-> fullsize, shift |-> fullshift, fd |-> fd, fmd |-> fmd]]

\* mmapio_open_rest (Win32) from the creation of the mapping object on
win32_map_rest(W, out, fd, mt, sz, fix, size_clamp, fail) ==
  LET extended_size == win32_extended_size(psize, sz, fix.fullsize)
      fullextent == win32_fullextent(size_clamp, extended_size, fix.fulloff)
      c == sys_CreateFileMapping(W, fd, mt.bequeath # 0,
             mmapio_mode_prot_cvt_win32(mt.mode), fullextent, fail)
  IN IF c.ret = NULL THEN [w |-> win32_bail(c.w, fd, out), ret |-> NULL]
     ELSE LET v == sys_MapViewOfFile(c.w, c.ret, mmapio_mode_access_cvt(mt),
                     fix.fulloff, fix.fullsize, fail)
          IN IF v.ret = NULL
             THEN [w |-> win32_bail_view(v.w, c.ret, fd, out), ret |-> NULL]
             ELSE [w |-> win32_init(v.w, out, v.ret, fix.fullsize, fd, c.ret,
                                    fix.fullshift),
                   ret |-> out]

\* mmapio_open_rest (Win32) from "fix map size" on
win32_sized_rest(W, out, fd, mt, sz, off, fail) ==
  LET size_clamp == mmapio_file_size_e(W, fd)
      s == win32_fix_size(mt, size_clamp, sz, off)
  IN IF s.reject THEN [w |-> win32_bail(W, fd, out), ret |-> NULL]
     ELSE LET fix == page_fix(psize, s.sz, off) IN
          IF fix.fail
          THEN [w |-> SetErrno(win32_bail(W, fd, out), "ERANGE"), ret |-> NULL]
          ELSE win32_map_rest(W, out, fd, mt, s.sz, fix, size_clamp, fail)

mmapio_open_rest_win32(W, fd, mt, sz, off, fail) ==
  LET a == calloc_mmi(W, fail) IN
  IF a.ret = NULL THEN [w |-> sys_close(a.w, fd), ret |-> NULL]
  ELSE win32_sized_rest(a.w, a.ret, fd, mt, sz, off, fail)

(* ---- Name Bridge ---- *)
\* File names are abstract: "file" exists, "nofile" does not, and "badname"
\* is a missing file whose text no conversion accepts.
NameConverts(nm) == nm # "badname"

\* mmapio_wctomb (Unix): NULL on a conversion error or when calloc refuses,
\* else a fresh buffer
mmapio_wctomb(W, nm, fail) ==
  IF ~NameConverts(nm) THEN [w |-> SetErrno(W, "EILSEQ"), ret |-> NULL]
  ELSE IF fail = "namealloc" THEN [w |-> SetErrno(W, "ENOMEM"), ret |-> NULL]
  ELSE [w |-> [W EXCEPT !.nbuf = @ + 1], ret |-> 1]

\* mmapio_u8towc (Win32): NULL on a decoding error or when calloc refuses,
\* else a fresh buffer
mmapio_u8towc(W, nm, fail) ==
  IF ~NameConverts(nm) THEN [w |-> W, ret |-> NULL]
  ELSE IF fail = "namealloc" THEN [w |-> SetErrno(W, "ENOMEM"), ret |-> NULL]
  ELSE [w |-> [W EXCEPT !.nbuf = @ + 1], ret |-> 1]

\* free(mbfn), free(wcfn)
free_name(W) == [W EXCEPT !.nbuf = @ - 1]

(* ---- open functions ---- *)
\* after open(2) (Unix)
unix_opened(o, mt, sz, off, fail) ==
  IF o.ret = INVALID_FD THEN [w |-> o.w, ret |-> NULL]
  ELSE mmapio_open_rest_unix(o.w, o.ret, mt, sz, off, fail)

mmapio_open_unix(W, nm, mode, sz, off, fail) ==
  LET mt == mmapio_mode_parse(mode) IN
  unix_opened(sys_open(W, nm, mmapio_mode_rw_cvt_unix(mt.mode, build.ocloexec), fail),
              mt, sz, off, fail)

mmapio_u8open_unix(W, nm, mode, sz, off, fail) ==
  LET mt == mmapio_mode_parse(mode) IN
  unix_opened(sys_open(W, nm, mmapio_mode_rw_cvt_unix(mt.mode, build.ocloexec), fail),
              mt, sz, off, fail)

mmapio_wopen_unix(W, nm, mode, sz, off, fail) ==
  LET mt == mmapio_mode_parse(mode)
      mbfn == mmapio_wctomb(W, nm, fail)
  IN IF mbfn.ret = NULL THEN [w |-> mbfn.w, ret |-> NULL]
     ELSE LET o == sys_open(mbfn.w, nm,
                     mmapio_mode_rw_cvt_unix(mt.mode, build.ocloexec), fail)
          IN unix_opened([w |-> free_name(o.w), ret |-> o.ret], mt, sz, off, fail)

\* after CreateFile (Win32)
win32_opened(o, mt, sz, off, fail) ==
  IF o.ret = INVALID_FD THEN [w |-> o.w, ret |-> NULL]
  ELSE mmapio_open_rest_win32(o.w, o.ret, mt, sz, off, fail)

mmapio_open_win32(W, nm, mode, sz, off, fail) ==
  LET mt == mmapio_mode_parse(mode) IN
  win32_opened(sys_CreateFile(W, nm, mmapio_mode_rw_cvt_win32(mt.mode),
                              mt.bequeath # 0, fail),
               mt, sz, off, fail)

mmapio_u8open_win32(W, nm, mode, sz, off, fail) ==
  LET mt == mmapio_mode_parse(mode)
      wcfn == mmapio_u8towc(W, nm, fail)
  IN IF wcfn.ret = NULL THEN [w |-> wcfn.w, ret |-> NULL]
     ELSE LET o == sys_CreateFile(wcfn.w, nm, mmapio_mode_rw_cvt_win32(mt.mode),
                                  mt.bequeath # 0, fail)
          IN win32_opened([w |-> free_name(o.w), ret |-> o.ret], mt, sz, off, fail)

mmapio_wopen_win32(W, nm, mode, sz, off, fail) ==
  LET mt == mmapio_mode_parse(mode) IN
  win32_opened(sys_CreateFile(W, nm, mmapio_mode_rw_cvt_win32(mt.mode),
                              mt.bequeath # 0, fail),
               mt, sz, off, fail)

\* the fallback backend: "no-op"
mmapio_open_none(W) == [w |-> W, ret |-> NULL]

\* the three entry points of the build
mmapio_open(W, nm, mode, sz, off, fail) ==
  CASE build.os = MMAPIO_OS_UNIX  -> mmapio_open_unix(W, nm, mode, sz, off, fail)
    [] build.os = MMAPIO_OS_WIN32 -> mmapio_open_win32(W, nm, mode, sz, off, fail)
    [] OTHER -> mmapio_open_none(W)

mmapio_u8open(W, nm, mode, sz, off, fail) ==
  CASE build.os = MMAPIO_OS_UNIX  -> mmapio_u8open_unix(W, nm, mode, sz, off, fail)
    [] build.os = MMAPIO_OS_WIN32 -> mmapio_u8open_win32(W, nm, mode, sz, off, fail)
    [] OTHER -> mmapio_open_none(W)

mmapio_wopen(W, nm, mode, sz, off, fail) ==
  CASE build.os = MMAPIO_OS_UNIX  -> mmapio_wopen_unix(W, nm, mode, sz, off, fail)
    [] build.os = MMAPIO_OS_WIN32 -> mmapio_wopen_win32(W, nm, mode, sz, off, fail)
    [] OTHER -> mmapio_open_none(W)

(* ---- error handling ---- *)
\* the library's last-error slot mirrors the C library's errno
mmapio_get_errno == errno

mmapio_set_errno(W, x) == SetErrno(W, x)

(* ---- configuration functions ---- *)
mmapio_get_os == build.os

\* 1: the library says the inheritance race is closed; 0: it is not; -1: no backend
mmapio_check_bequeath_stop ==
  CASE build.os = MMAPIO_OS_UNIX  -> (IF build.ocloexec THEN 1 ELSE 0)
    [] build.os = MMAPIO_OS_WIN32 -> 1
    [] OTHER -> -1

(* ---- the capability surface ---- *)
\* a slip the resource balance detects: the destructor forgets close(mu->fd)
mmapio_mmi_dtor_unix_leak(W, m) ==
  LET mu == W.handles[m] IN free_mmi(sys_munmap(W, mu.ptr), m)

mmapio_mmi_dtor_unix(W, m) ==
  LET mu == W.handles[m] IN free_mmi(sys_close(sys_munmap(W, mu.ptr), mu.fd), m)

mmapio_mmi_dtor_win32(W, m) ==
  LET mu == W.handles[m] IN
  free_mmi(sys_close(sys_CloseMapping(sys_munmap(W, mu.ptr), mu.fmd), mu.fd), m)

\* ((unsigned char* )mu->ptr)+mu->shift, as the pair (base, displacement)
mmapio_mmi_acquire(W, m) == [base |-> W.handles[m].ptr, off |-> W.handles[m].shift]

\* a slip the frame property detects: release gives the pointer up
mmapio_mmi_release_forgets(W, m, p) == [W EXCEPT !.handles[m].ptr = NULL]

mmapio_mmi_release(W, m, p) == W

\* a slip the length property detects: the shift is not taken off
mmapio_mmi_length_noshift(W, m) == W.handles[m].len

mmapio_mmi_length(W, m) == SizeT(W.handles[m].len - W.handles[m].shift)

mmapio_close(W, m) ==
  IF build.os = MMAPIO_OS_WIN32 THEN mmapio_mmi_dtor_win32(W, m)
  ELSE mmapio_mmi_dtor_unix(W, m)

mmapio_acquire(W, m) == mmapio_mmi_acquire(W, m)

mmapio_release(W, m, p) == mmapio_mmi_release(W, m, p)

mmapio_length(W, m) == mmapio_mmi_length(W, m)

\* the byte a program reads at p[i]: the view's own copy of a byte it has
\* stored privately, else the file's byte under a live view, 0 between the
\* end of the file and the end of the view, -1 for a fault (no view at that
\* address)
ReadByte(W, p, i) ==
  IF p.base \notin DOMAIN W.views THEN -1
  ELSE LET v == W.views[p.base]
           k == p.off + i
       IN IF k >= v.len THEN -1
          ELSE IF k \in DOMAIN v.own THEN v.own[k]
          ELSE IF v.off + k < Len(W.files[v.name]) THEN W.files[v.name][v.off + k + 1]
          ELSE 0

\* may a program store through the pointers of this view without a fault
ViewWritable(v) == (PROT_WRITE \subseteq v.prot) \/ (FILE_MAP_WRITE \subseteq v.prot)

\* the program stores b at p[i], a byte of the file under a writable view: a
\* shared view carries it to the file, a private one keeps it in its own copy
WriteByte(W, p, i, b) ==
  LET v == W.views[p.base]
      k == p.off + i
  IN IF v.shared THEN [W EXCEPT !.files[v.name][v.off + k + 1] = b]
     ELSE [W EXCEPT !.views[p.base].own = (k :> b) @@ @]

(* ---- the caller ---- *)
Entries == {"open", "u8open", "wopen"}
Names == {"file", "nofile", "badname"}

\* mode texts as the caller passes them: characters, then the terminating NUL
ModeTexts ==
  { <<mmapio_mode_read, 0>>,
    <<mmapio_mode_write, 0>>,
    <<mmapio_mode_read, mmapio_mode_end, 0>>,
    <<mmapio_mode_write, mmapio_mode_private, 0>>,
    <<mmapio_mode_read, mmapio_mode_bequeath, 0>>,
    <<OtherChar, 0>>,
    <<mmapio_mode_end, mmapio_mode_bequeath, 0>>,
    <<mmapio_mode_write, mmapio_mode_end, mmapio_mode_bequeath, 0>> }

Requests ==
  [entry : Entries, nm : Names, mode : ModeTexts, sz : 0 .. SizeMax, off : 0 .. SizeMax]

\* the requests of the caller that keeps several regions open (SpecLife)
LifeRequests ==
  [entry : {"open"}, nm : {"file"},
   mode : { <<mmapio_mode_read, 0>>,
            <<mmapio_mode_write, mmapio_mode_end, mmapio_mode_bequeath, 0>> },
   sz : {2}, off : {1, PageSize}]

Builds ==
  { [os |-> mmapio_os_none, ocloexec |-> FALSE],
    [os |-> MMAPIO_OS_UNIX, ocloexec |-> TRUE],
    [os |-> MMAPIO_OS_UNIX, ocloexec |-> FALSE],
    [os |-> MMAPIO_OS_WIN32, ocloexec |-> FALSE] }

LifeBuilds ==
  { [os |-> MMAPIO_OS_UNIX, ocloexec |-> TRUE],
    [os |-> MMAPIO_OS_WIN32, ocloexec |-> FALSE] }

\* what sysconf(_SC_PAGE_SIZE) / dwAllocationGranularity may report
Granularities(b) ==
  CASE b.os = MMAPIO_OS_UNIX  -> {PageSize, -1}
    [] b.os = MMAPIO_OS_WIN32 -> {PageSize, 0}
    [] OTHER -> {PageSize}

FileBytes == [i \in 1 .. FileLen |-> 16 + i]

NullPtr == [base |-> NULL, off |-> 0]
StartCall == [op |-> "start", entry |-> "", nm |-> "", mode |-> <<0>>, sz |-> 0,
              off |-> 0, fail |-> "none", m |-> NULL, ret |-> NULL, p |-> NullPtr]
NoPlan == [entry |-> "", nm |-> "", mode |-> <<0>>, sz |-> 0, off |-> 0]

InitWorld ==
  /\ build \in Builds
  /\ psize \in Granularities(build)
  /\ files = ("file" :> FileBytes)
  /\ fds = EmptyTable
  /\ fmds = EmptyTable
  /\ views = EmptyTable
  /\ handles = EmptyTable
  /\ nbuf = 0
  /\ errno = "0"
  /\ live = {}
  /\ call = StartCall
  /\ child = {}
  /\ wrote = {}

\* no conversion is studied on its own
NoStudy == input = <<>> /\ output = <<>>

\* the driver program is started with one request
Init == InitWorld /\ plan \in Requests /\ NoStudy

\* the long-running caller has no fixed request; it runs on the two real
\* backends, where the granularity query succeeds
InitLife ==
  InitWorld /\ plan = NoPlan /\ build \in LifeBuilds /\ psize = PageSize /\ NoStudy

SetWorld(W) ==
  /\ files' = W.files
  /\ fds' = W.fds
  /\ fmds' = W.fmds
  /\ views' = W.views
  /\ handles' = W.handles
  /\ nbuf' = W.nbuf
  /\ errno' = W.errno

\* one call of an open function, from entry to return
DoOpen(req, fail) ==
  LET r == CASE req.entry = "open"   -> mmapio_open(World, req.nm, req.mode, req.sz, req.off, fail)
             [] req.entry = "u8open" -> mmapio_u8open(World, req.nm, req.mode, req.sz, req.off, fail)
             [] OTHER                -> mmapio_wopen(World, req.nm, req.mode, req.sz, req.off, fail)
  IN /\ SetWorld(r.w)
     /\ live' = IF r.ret # NULL THEN live \cup {r.ret} ELSE live
     /\ call' = [StartCall EXCEPT !.op = "open", !.entry = req.entry, !.nm = req.nm,
                   !.mode = req.mode, !.sz = req.sz, !.off = req.off, !.fail = fail,
                   !.ret = r.ret]
     /\ UNCHANGED <<build, psize, plan, aside>>

\* the driver's one open call
OpenPlanned == call.op = "start" /\ \E fail \in Failures : DoOpen(plan, fail)

\* an open call of the long-running caller
OpenAny ==
  /\ Cardinality(live) < MaxLive
  /\ \E req \in LifeRequests, fail \in Failures : DoOpen(req, fail)

Length ==
  \E m \in live :
    /\ call' = [StartCall EXCEPT !.op = "length", !.m = m, !.ret = mmapio_length(World, m)]
    /\ UNCHANGED <<build, psize, files, fds, fmds, views, handles, nbuf, errno, live, plan,
                   aside>>

Acquire ==
  \E m \in live :
    /\ call' = [StartCall EXCEPT !.op = "acquire", !.m = m, !.p = mmapio_acquire(World, m)]
    /\ UNCHANGED <<build, psize, files, fds, fmds, views, handles, nbuf, errno, live, plan,
                   aside>>

Release ==
  \E m \in live :
    /\ SetWorld(mmapio_release(World, m, mmapio_acquire(World, m)))
    /\ call' = [StartCall EXCEPT !.op = "release", !.m = m]
    /\ UNCHANGED <<build, psize, live, plan, aside>>

Close ==
  \E m \in live :
    /\ SetWorld(mmapio_close(World, m))
    /\ live' = live \ {m}
    /\ call' = [StartCall EXCEPT !.op = "close", !.m = m]
    /\ UNCHANGED <<build, psize, plan, aside>>

Next == OpenPlanned \/ Length \/ Acquire \/ Release \/ Close

NextLife == OpenAny \/ Length \/ Acquire \/ Release \/ Close

Spec == Init /\ [][Next]_vars

SpecLife == InitLife /\ [][NextLife]_vars

(* ---- a caller that stores through the pointer, closes and opens again ---- *)
WriteRequests ==
  [entry : {"open"}, nm : {"file"},
   mode : { <<mmapio_mode_write, 0>>,
            <<mmapio_mode_write, mmapio_mode_private, 0>>,
            <<mmapio_mode_private, mmapio_mode_write, mmapio_mode_end, 0>>,
            <<mmapio_mode_read, mmapio_mode_private, 0>> },
   sz : {2, 3}, off : {0, 1}]

InitWrite == InitWorld /\ plan \in WriteRequests /\ NoStudy

\* bytes[i] = StoreByte, for a byte of the file inside the region
Write ==
  \E m \in live :
    LET p == mmapio_acquire(World, m) IN
    /\ p.base \in DOMAIN views
    /\ ViewWritable(views[p.base])
    /\ \E i \in 0 .. (mmapio_length(World, m) - 1) :
         LET pos == views[p.base].off + p.off + i IN
         /\ pos < Len(files[views[p.base].name])
         /\ SetWorld(WriteByte(World, p, i, StoreByte))
         /\ wrote' = wrote \cup {[pos |-> pos, val |-> StoreByte]}
    /\ call' = [StartCall EXCEPT !.op = "write", !.m = m, !.p = p]
    /\ UNCHANGED <<build, psize, live, plan, child, input, output>>

\* after mmapio_close the same range of the file is opened again, read-only
Reopen ==
  /\ call.op = "close"
  /\ live = {}
  /\ DoOpen([plan EXCEPT !.mode = <<mmapio_mode_read, 0>>], "none")

NextWrite == OpenPlanned \/ Write \/ Close \/ Reopen

SpecWrite == InitWrite /\ [][NextWrite]_vars

(* ---- the dump program ---- *)
\* argv[2], argv[3] and argv[4] of a run with the file "file"; every number
\* is far below UINT_MAX-32, where the program cuts its output off
DumpArgs ==
  [argv2 : { <<mmapio_mode_read, 0>>, <<mmapio_mode_write, mmapio_mode_private, 0>> },
   argv3 : 0 .. SizeMax, argv4 : 0 .. SizeMax]

InitDump == InitWorld /\ plan = NoPlan /\ input \in DumpArgs /\ output = <<>>

\* mi = mmapio_open(fname, argv[2], strtoul(argv[3]), strtoul(argv[4]));
\* with mi == NULL the program ends here
DumpOpen ==
  /\ call.op = "start"
  /\ \E fail \in Failures :
       DoOpen([entry |-> "open", nm |-> "file", mode |-> input.argv2,
               sz |-> input.argv3, off |-> input.argv4], fail)

\* "output the data" and mmapio_close(mi): output is the bytes printed
DumpOutput ==
  /\ call.op = "open" /\ call.ret # NULL
  /\ LET len == mmapio_length(World, call.ret)
         bytes == mmapio_acquire(World, call.ret)
         W1 == IF bytes.base + bytes.off # NULL
               THEN mmapio_release(World, call.ret, bytes) ELSE World
     IN /\ output' = IF bytes.base + bytes.off # NULL
                      THEN [i \in 1 .. len |-> ReadByte(World, bytes, i - 1)]
                      ELSE <<>>
        /\ SetWorld(mmapio_close(W1, call.ret))
        /\ live' = live \ {call.ret}
        /\ call' = [call EXCEPT !.op = "close", !.m = call.ret, !.p = bytes]
  /\ UNCHANGED <<build, psize, plan, child, wrote, input>>

SpecDump == InitDump /\ [][DumpOpen \/ DumpOutput]_vars

(* ---- the earlier listing of mmapio.c (Unix only) ---- *)
\* "fix to page sizes" of the earlier listing: with psize <= 0 only fulloff is
\* assigned, fullshift keeps whatever the stack held (junk)
page_fix_first(ps, sz, off, junk) ==
  IF ps > 0 THEN page_fix(ps, sz, off)
  ELSE [fail |-> FALSE, fullshift |-> junk, fulloff |-> off, fullsize |-> sz]

\* mmapio_open_rest of the earlier listing: no close-on-exec step
mmapio_open_rest_first(W, fd, mt, sz, off, fail, junk) ==
  LET a == calloc_mmi(W, fail) IN
  IF a.ret = NULL THEN [w |-> sys_close(a.w, fd), ret |-> NULL]
  ELSE LET sz1 == unix_fix_size(mt, mmapio_file_size_e(a.w, fd), sz, off)
           fix == page_fix_first(psize, sz1, off, junk)
       IN IF fix.fail
          THEN [w |-> SetErrno(unix_bail(a.w, fd, a.ret), "ERANGE"), ret |-> NULL]
          ELSE unix_map_rest(a.w, a.ret, fd, mt, fix, fail)

\* mmapio_open of the earlier listing
mmapio_open_first(W, nm, mode, sz, off, fail, junk) ==
  LET mt == mmapio_mode_parse(mode)
      o == sys_open(W, nm, mmapio_mode_rw_cvt_unix(mt.mode, FALSE), fail)
  IN IF o.ret = INVALID_FD THEN [w |-> o.w, ret |-> NULL]
     ELSE mmapio_open_rest_first(o.w, o.ret, mt, sz, off, fail, junk)

InitFirst ==
  /\ InitWorld /\ build = [os |-> MMAPIO_OS_UNIX, ocloexec |-> FALSE]
  /\ plan \in [entry : {"open"}, nm : {"file"}, mode : ModeTexts,
                sz : 0 .. SizeMax, off : 0 .. SizeMax]
  /\ NoStudy

\* the driver's one open call, built from the earlier listing; junk is what
\* the unassigned variable happens to hold
OpenFirst ==
  /\ call.op = "start"
  /\ \E fail \in {"none", "calloc", "map"}, junk \in 0 .. SizeMax :
       LET r == mmapio_open_first(World, plan.nm, plan.mode, plan.sz, plan.off, fail, junk)
       IN /\ SetWorld(r.w)
          /\ live' = IF r.ret # NULL THEN live \cup {r.ret} ELSE live
          /\ call' = [StartCall EXCEPT !.op = "open", !.entry = plan.entry,
                        !.nm = plan.nm, !.mode = plan.mode, !.sz = plan.sz,
                        !.off = plan.off, !.fail = fail, !.ret = r.ret]
  /\ UNCHANGED <<build, psize, plan, aside>>

SpecFirst == InitFirst /\ [][OpenFirst \/ Length \/ Close]_vars

(* ---- one open call, step by step, beside a thread that spawns processes ---- *)
RaceRequests ==
  [entry : {"open"}, nm : {"file", "nofile"}, mode : ModeTexts, sz : {2}, off : {0, 1}]

InitRace == InitWorld /\ plan \in RaceRequests /\ NoStudy

\* the call has returned r.ret
RaceReturn(r, fail) ==
  /\ SetWorld(r.w)
  /\ live' = IF r.ret # NULL THEN live \cup {r.ret} ELSE live
  /\ call' = [call EXCEPT !.op = "open", !.fail = fail, !.m = NULL, !.ret = r.ret]

\* the call goes on at the step `op` with the file handle fd and the struct out
RaceGoOn(W, op, fd, out, fail) ==
  /\ SetWorld(W)
  /\ live' = live
  /\ call' = [call EXCEPT !.op = op, !.fail = fail, !.m = fd, !.ret = out]

\* mmapio_open up to the return of open(2) / CreateFileA
RaceNativeOpen ==
  /\ call.op = "start"
  /\ \E fail \in {"none", "open"} :
       LET mt == mmapio_mode_parse(plan.mode)
           o == CASE build.os = MMAPIO_OS_UNIX ->
                       sys_open(World, plan.nm,
                                mmapio_mode_rw_cvt_unix(mt.mode, build.ocloexec), fail)
                  [] build.os = MMAPIO_OS_WIN32 ->
                       sys_CreateFile(World, plan.nm, mmapio_mode_rw_cvt_win32(mt.mode),
                                      mt.bequeath # 0, fail)
                  [] OTHER -> [w |-> World, ret |-> INVALID_FD]
           started == [StartCall EXCEPT !.entry = plan.entry, !.nm = plan.nm,
                         !.mode = plan.mode, !.sz = plan.sz, !.off = plan.off]
       IN /\ SetWorld(o.w)
          /\ live' = live
          /\ call' = IF o.ret = INVALID_FD
                     THEN [started EXCEPT !.op = "open", !.fail = fail]
                     ELSE [started EXCEPT !.op = "native", !.fail = fail, !.m = o.ret]
  /\ UNCHANGED <<build, psize, plan, aside>>

\* mmapio_open_rest up to the end of "assign the close-on-exec flag" (on
\* Win32 CreateFile has taken the attribute, only the struct is allocated)
RaceConfigure ==
  /\ call.op = "native"
  /\ \E fail \in {"none", "calloc", "fcntl"} :
       LET mt == mmapio_mode_parse(plan.mode)
           a == calloc_mmi(World, fail)
       IN IF a.ret = NULL
          THEN RaceReturn([w |-> sys_close(a.w, call.m), ret |-> NULL], fail)
          ELSE IF build.os = MMAPIO_OS_UNIX
          THEN LET c == unix_configure(a.w, a.ret, call.m, mt, fail) IN
               IF c.ret = NULL THEN RaceReturn(c, fail)
               ELSE RaceGoOn(c.w, "configured", call.m, a.ret, fail)
          ELSE RaceGoOn(a.w, "configured", call.m, a.ret, fail)
  /\ UNCHANGED <<build, psize, plan, aside>>

\* the rest of mmapio_open_rest: sizes, the mapping, the struct's fields
RaceMap ==
  /\ call.op = "configured"
  /\ \E fail \in {"none", "map", "view"} :
       LET mt == mmapio_mode_parse(plan.mode) IN
       IF build.os = MMAPIO_OS_UNIX
       THEN RaceReturn(unix_sized_rest(World, call.ret, call.m, mt, plan.sz, plan.off,
                                       fail), fail)
       ELSE RaceReturn(win32_sized_rest(World, call.ret, call.m, mt, plan.sz, plan.off,
                                        fail), fail)
  /\ UNCHANGED <<build, psize, plan, aside>>

\* another thread spawns a process (fork and exec, CreateProcess with
\* bInheritHandles): the child gets every file handle that is inheritable now
Spawn ==
  /\ child' = child \cup { fd \in DOMAIN fds : fds[fd].inherit }
  /\ UNCHANGED <<build, psize, files, fds, fmds, views, handles, nbuf, errno, live, plan,
                 call, wrote, input, output>>

NextRace == RaceNativeOpen \/ RaceConfigure \/ RaceMap \/ Spawn \/ Close

SpecRace == InitRace /\ [][NextRace]_vars

(* ---- mmapio_mode_parse on its own ---- *)
ModeChars == {mmapio_mode_read, mmapio_mode_write, mmapio_mode_end,
              mmapio_mode_private, mmapio_mode_bequeath}

\* a text whose only token lies behind the characters mmapio_mode_parse examines
LongText == [i \in 1 .. ParseLimit |-> OtherChar] \o <<mmapio_mode_read>>

\* mode texts without the terminating NUL
ParseTexts ==
  UNION { [1 .. n -> ModeChars \cup {OtherChar}] : n \in 0 .. MaxText } \cup {LongText}

\* the C string of a text
CString(t) == t \o <<0>>

\* the text t with the characters ins put in after its first j characters
InsertAt(t, j, ins) == SubSeq(t, 1, j) \o ins \o SubSeq(t, j + 1, Len(t))

\* the one call mmapio_mode_parse(text) of a run, remembered with how text
\* was made from input
Parsed(kind, t) == [kind |-> kind, text |-> t, tag |-> mmapio_mode_parse(CString(t))]

InitParse ==
  /\ InitWorld /\ build.os = mmapio_os_none /\ plan = NoPlan
  /\ input \in ParseTexts
  /\ output = [kind |-> "none", text |-> <<>>, tag |-> ZeroTag]

\* the text as it is
ParseGiven ==
  /\ output.kind = "none"
  /\ output' = Parsed("given", input)
  /\ UNCHANGED <<libvars, child, wrote, input>>

\* the same characters in another order
ParsePermuted ==
  /\ output.kind = "none"
  /\ \E f \in Permutations(1 .. Len(input)) :
       output' = Parsed("permuted", [i \in 1 .. Len(input) |-> input[f[i]]])
  /\ UNCHANGED <<libvars, child, wrote, input>>

\* characters that are no token put in somewhere
ParsePadded ==
  /\ output.kind = "none"
  /\ \E j \in 0 .. Len(input), k \in 1 .. ParseLimit :
       output' = Parsed("padded", InsertAt(input, j, [i \in 1 .. k |-> OtherChar]))
  /\ UNCHANGED <<libvars, child, wrote, input>>

\* a token of the text written once more somewhere
ParseRepeated ==
  /\ output.kind = "none"
  /\ \E i \in 1 .. Len(input), j \in 0 .. Len(input) :
       /\ input[i] \in ModeChars
       /\ output' = Parsed("repeated", InsertAt(input, j, <<input[i]>>))
  /\ UNCHANGED <<libvars, child, wrote, input>>

\* the caller's buffer holds more characters behind the terminating NUL
ParseBeyond ==
  /\ output.kind = "none"
  /\ \E rest \in [1 .. 1 -> ModeChars] \cup [1 .. 2 -> ModeChars] :
       output' = Parsed("beyond", input \o <<0>> \o rest)
  /\ UNCHANGED <<libvars, child, wrote, input>>

NextParse == ParseGiven \/ ParsePermuted \/ ParsePadded \/ ParseRepeated \/ ParseBeyond

SpecParse == InitParse /\ [][NextParse]_vars

(* ---- mmapio_u8towc on its own ---- *)
\* UINT_MAX/2u-4u with a 32 bit unsigned int
sz_max == 2147483643

\* for (i = 0; i < cnt; ++i) over v1 = *(p+i): the bytes read start at p
\* itself.  The result is -1 for MMAPIO_EILSEQ, else qv
RECURSIVE u8_extension(_, _, _, _, _)
u8_extension(nm, p, i, cnt, qv) ==
  IF i >= cnt THEN qv
  ELSE LET v1 == nm[p + i] IN
       IF v1 < 128 \/ v1 >= 192 THEN -1
       ELSE u8_extension(nm, p, i + 1, cnt, qv * 64 + (v1 % 64))

\* (wchar_t)qv, wchar_t being 16 bits wide on Windows
wchar(qv) == qv % 65536

\* the loop of mmapio_u8towc_shim from the byte at p on, n units being out
\* already; nm is the name with its terminating NUL, nm[p] is the C *p
RECURSIVE u8_shim_from(_, _, _)
u8_shim_from(nm, p, out) ==
  LET v == nm[p]
      n == Len(out)
  IN IF v = 0 \/ n >= sz_max THEN [err |-> "0", units |-> out]
     ELSE IF v < 128 THEN u8_shim_from(nm, p + 1, Append(out, v))
     ELSE IF v < 192 THEN [err |-> "EILSEQ", units |-> <<>>]
     ELSE IF v < 224
       THEN LET qv == u8_extension(nm, p, 0, 1, v % 32) IN
            IF qv < 0 THEN [err |-> "EILSEQ", units |-> <<>>]
            ELSE u8_shim_from(nm, p + 2, Append(out, wchar(qv)))
     ELSE IF v < 240
       THEN LET qv == u8_extension(nm, p, 0, 2, v % 16) IN
            IF qv < 0 THEN [err |-> "EILSEQ", units |-> <<>>]
            ELSE u8_shim_from(nm, p + 3, Append(out, wchar(qv)))
     ELSE IF v < 248
       THEN LET qv == u8_extension(nm, p, 0, 3, v % 4) IN
            IF qv < 0 \/ qv >= 1114111 THEN [err |-> "EILSEQ", units |-> <<>>]
            ELSE \* qv -= 0x10000 in unsigned long; the units use its low 20
                 \* bits only, which are those of the wrapped difference
                 LET q2 == (qv - 65536) % 1048576 IN
                 u8_shim_from(nm, p + 4,
                   out \o << 55296 + ((q2 \div 1024) % 1024), 56320 + (q2 % 1024) >>)
     ELSE [err |-> "EILSEQ", units |-> <<>>]

\* mmapio_u8towc_shim(nm, out, &outlen): the error code and the units stored
mmapio_u8towc_shim(nm) == u8_shim_from(CString(nm), 1, <<>>)

\* bytes of file names: ASCII, continuation bytes, lead bytes of two, three
\* and four byte forms, and bytes that begin nothing
NameBytes == {65, 128, 169, 192, 195, 224, 226, 240, 244, 248}

NameTexts == UNION { [1 .. n -> NameBytes] : n \in 0 .. MaxName }

InitU8 ==
  /\ InitWorld /\ build.os = MMAPIO_OS_WIN32 /\ psize = PageSize /\ plan = NoPlan
  /\ input \in NameTexts
  /\ output = [kind |-> "none", err |-> "0", units |-> <<>>]

\* the conversion mmapio_u8open makes of its file name
ConvertName ==
  /\ output.kind = "none"
  /\ output' = [kind |-> "u8towc", err |-> mmapio_u8towc_shim(input).err,
                units |-> mmapio_u8towc_shim(input).units]
  /\ UNCHANGED <<libvars, child, wrote, input>>

SpecU8 == InitU8 /\ [][ConvertName]_vars

(* ---- properties ---- *)
\* an open function has just returned a handle / the failure sentinel
Opened == call.op = "open" /\ call.ret # NULL
Failed == call.op = "open" /\ call.ret = NULL
\* the parsed mode of the most recent open call
CallTag == mmapio_mode_parse(call.mode)
\* the length of the file the most recent open call named
CallFileLen == Len(files[call.nm])
\* the backend struct the most recent open call returned
Region == handles[call.ret]
\* no native resource and no heap block of the library exists
NothingHeld ==
  /\ DOMAIN fds = {} /\ DOMAIN fmds = {} /\ DOMAIN views = {}
  /\ DOMAIN handles = {} /\ nbuf = 0

\* C1: after a successful open with size > 0 and without the extend-to-end
\* token, mmapio_length of the handle is the requested size, for every
\* offset, aligned to the granularity or not.
C1_LengthIsRequestedSize ==
  (Opened /\ call.sz > 0 /\ CallTag.end = 0)
    => mmapio_length(World, call.ret) = call.sz

\* C1 happens: a mapped region at an offset that is no multiple of the granularity
C1_Witness ==
  /\ Opened /\ call.sz > 0 /\ CallTag.end = 0
  /\ psize > 0 /\ call.off % psize # 0
  /\ Region.ptr \in DOMAIN views /\ Region.shift > 0

\* C2: after a successful open at offset off, byte i of the pointer that
\* mmapio_acquire returns is byte off+i of the file, for every i below the
\* region's length that lies inside the file.
C2_AcquireAddressesOffset ==
  Opened =>
    \A i \in 0 .. (mmapio_length(World, call.ret) - 1) :
      call.off + i < CallFileLen
        => ReadByte(World, mmapio_acquire(World, call.ret), i)
             = files[call.nm][call.off + i + 1]

\* C3: an open with the extend-to-end token and an offset beyond the end of
\* the file returns NULL.
C3_EndBeyondFileFails ==
  (call.op = "open" /\ CallTag.end # 0 /\ call.nm \in DOMAIN files
     /\ call.off > CallFileLen)
    => call.ret = NULL

\* C4: an open whose mode text holds neither 'r' nor 'w' returns NULL and
\* leaves no native file open and no mapping behind.
C4_NoAccessTokenFails ==
  (call.op = "open" /\ CallTag.mode = 0) => (call.ret = NULL /\ NothingHeld)

\* C5: an open with size 0 and without the extend-to-end token returns NULL
\* with every resource released.
C5_ZeroSizeFails ==
  (call.op = "open" /\ call.sz = 0 /\ CallTag.end = 0)
    => (call.ret = NULL /\ NothingHeld)

C7_FailedOpenReleasesAll == Failed => NothingHeld

\* C7 happens: the range gate failed after the file was opened and the struct allocated
C7_Witness == Failed /\ errno = "ERANGE" /\ NothingHeld

\* C8: no handle is returned whose stored base pointer is not the result of
\* a successful native mapping call.
C8_RefusedMappingFails == Opened => Region.ptr \in DOMAIN views

\* C9: the open file handles, mapping objects, views and backend structs are
\* exactly those of the handles returned and not yet closed, one file
\* handle per region; with no region open nothing is held.
C9_ResourcesMatchLiveHandles ==
  /\ DOMAIN handles = live
  /\ DOMAIN fds = { handles[m].fd : m \in live }
  /\ Cardinality(DOMAIN fds) = Cardinality(live)
  /\ DOMAIN fmds = { handles[m].fmd : m \in live } \ {NULL}
  /\ DOMAIN views = { handles[m].ptr : m \in live } \ {MAP_FAILED}
  /\ nbuf = 0

\* C9 happens: one region was closed while another one stays open
C9_Witness == call.op = "close" /\ Cardinality(live) = 1 /\ DOMAIN views # {}

\* C10: after a successful open the file handle (on Win32 also the mapping
\* object) is inheritable exactly if the mode text holds the token 'q'.
C10_InheritIffBequeath ==
  Opened =>
    /\ fds[Region.fd].inherit = (CallTag.bequeath # 0)
    /\ (build.os = MMAPIO_OS_WIN32
          => fmds[Region.fmd].inherit = (CallTag.bequeath # 0))

\* C10 happens: 'q' on a Unix build whose open(2) had set O_CLOEXEC
C10_Witness ==
  /\ Opened /\ CallTag.bequeath # 0
  /\ build.os = MMAPIO_OS_UNIX /\ build.ocloexec
  /\ fds[Region.fd].inherit

\* C11: on a build where mmapio_check_bequeath_stop() returns 1, an open
\* call whose mode text lacks the token 'q' never has its file handle
\* inheritable, at no step of the call, so no process spawned meanwhile
\* inherits it; for every mode text.
C11_NoInheritWindow ==
  (mmapio_check_bequeath_stop = 1 /\ mmapio_mode_parse(plan.mode).bequeath = 0)
    => (child = {} /\ \A fd \in DOMAIN fds : ~fds[fd].inherit)

\* C12: an open call that returns NULL has stored an error code in the
\* last-error slot during the call, whatever gate failed: mmapio_get_errno()
\* no longer reports the value from before the call.
C12_FailedOpenSetsErrno == Failed => mmapio_get_errno # "0"

\* the machine address a (base, displacement) pair stands for; (void* )-1 is
\* the highest address, one byte further is address 0
PtrAddress(p) == p.base + p.off

\* C13: on a handle a successful open returned, mmapio_acquire returns the
\* stored base pointer plus the stored shift, on every call between open and
\* close, and that pointer is never NULL.
C13_AcquireNeverNull ==
  call.op = "acquire" =>
    /\ call.p = [base |-> handles[call.m].ptr, off |-> handles[call.m].shift]
    /\ PtrAddress(call.p) # NULL

\* C14: bytes stored through the acquired pointer of a region opened with
\* write access are in the file when it is opened again after close if
\* the mode text has no 'p', and are not in it if the mode text has 'p'.
C14_PrivateIffNotInFile ==
  (Opened /\ wrote # {} /\ Region.ptr \in DOMAIN views) =>
    \A w \in wrote :
      (w.pos >= call.off /\ w.pos - call.off < mmapio_length(World, call.ret)) =>
        ( (ReadByte(World, mmapio_acquire(World, call.ret), w.pos - call.off) = w.val)
            <=> (mmapio_mode_parse(plan.mode).privy = 0) )

\* C15: mmapio_mode_parse gives the same descriptor for every order of the
\* characters of a mode text, also when the text holds both 'r' and 'w'.
C15_ParseOrderIndependent ==
  output.kind = "permuted" => output.tag = mmapio_mode_parse(CString(input))

\* the text holds both access tokens
BothAccess(t) ==
  \E i, j \in 1 .. Len(t) : t[i] = mmapio_mode_read /\ t[j] = mmapio_mode_write

\* C15 (amended): for every mode text of at most 8 characters that does not
\* hold both 'r' and 'w', mmapio_mode_parse gives the same descriptor for
\* every order of its characters.
C15_ParseOrderIndependentOneAccess ==
  (output.kind = "permuted" /\ Len(input) <= ParseLimit /\ ~BothAccess(input))
    => output.tag = mmapio_mode_parse(CString(input))

\* C15 happens: a text with an access token and 'e' parsed in another order
C15_Witness ==
  /\ output.kind = "permuted" /\ ~BothAccess(input) /\ output.text # input
  /\ output.tag.mode # 0 /\ output.tag.end # 0

\* C16: characters other than the five tokens and NUL, put in anywhere and
\* in any number, do not change the descriptor mmapio_mode_parse gives, and
\* neither does writing a token of the text once more.
C16_ParseIgnoresNoise ==
  output.kind \in {"padded", "repeated"}
    => output.tag = mmapio_mode_parse(CString(input))

\* C16 (amended): characters other than the five tokens and NUL, put in
\* anywhere, do not change the descriptor as long as the text they make has
\* at most 8 characters; writing a token of the text once more does not
\* change it either, as long as the text does not hold both 'r' and 'w' and
\* has at most 8 characters then.
C16_ParseIgnoresNoiseInWindow ==
  /\ (output.kind = "padded" /\ Len(output.text) <= ParseLimit)
       => output.tag = mmapio_mode_parse(CString(input))
  /\ (output.kind = "repeated" /\ ~BothAccess(input) /\ Len(output.text) <= ParseLimit)
       => output.tag = mmapio_mode_parse(CString(input))

\* C16 happens: a token behind characters that are none, eight characters in all
C16_Witness ==
  /\ output.kind = "padded" /\ Len(output.text) = ParseLimit
  /\ output.text[1] = OtherChar /\ output.tag.mode # 0

\* the UTF-16 form of a code point
Utf16Units(cp) ==
  IF cp < 65536 THEN <<cp>>
  ELSE << 55296 + ((cp - 65536) \div 1024), 56320 + ((cp - 65536) % 1024) >>

\* is b a continuation byte
IsCont(b) == b >= 128 /\ b < 192

\* the reference decoder: UTF-8 as the Unicode standard defines it, from the
\* byte at p on; err is "EILSEQ" for a lead byte that begins nothing, a
\* missing or wrong continuation byte, an overlong form, a surrogate and a
\* code point above U+10FFFF
RECURSIVE Utf8Reference(_, _, _)
Utf8Reference(t, p, out) ==
  IF p > Len(t) THEN [err |-> "0", units |-> out]
  ELSE LET b == t[p]
           bad == [err |-> "EILSEQ", units |-> <<>>]
           c(k) == t[p + k] % 64
           has(k) == p + k <= Len(t) /\ \A j \in 1 .. k : IsCont(t[p + j])
       IN IF b < 128 THEN Utf8Reference(t, p + 1, Append(out, b))
          ELSE IF b >= 194 /\ b < 224 /\ has(1)
            THEN Utf8Reference(t, p + 2, out \o Utf16Units((b % 32) * 64 + c(1)))
          ELSE IF b >= 224 /\ b < 240 /\ has(2)
            THEN LET cp == (b % 16) * 4096 + c(1) * 64 + c(2) IN
                 IF cp < 2048 \/ (cp >= 55296 /\ cp < 57344) THEN bad
                 ELSE Utf8Reference(t, p + 3, out \o Utf16Units(cp))
          ELSE IF b >= 240 /\ b < 245 /\ has(3)
            THEN LET cp == (b % 8) * 262144 + c(1) * 4096 + c(2) * 64 + c(3) IN
                 IF cp < 65536 \/ cp > 1114111 THEN bad
                 ELSE Utf8Reference(t, p + 4, out \o Utf16Units(cp))
          ELSE bad

\* C17: mmapio_u8towc_shim gives what a reference UTF-8 decoder gives on
\* every byte string: the UTF-16 units of the code points of a well-formed
\* text (a surrogate pair above U+FFFF), and an error for every text with an
\* invalid continuation byte, an overlong form or a code point above U+10FFFF.
C17_DecoderMatchesReference ==
  output.kind = "u8towc" =>
    /\ output.err = Utf8Reference(input, 1, <<>>).err
    /\ output.units = Utf8Reference(input, 1, <<>>).units

\* C18: mmapio_acquire, mmapio_release and mmapio_length change no stored
\* field of a region and no native resource and leave the region open, in
\* any number and order; an open region's fields never change; only
\* mmapio_close ends a region; and mmapio_length repeated returns the same.
C18_HelpersChangeNothing ==
  [][ /\ \A m \in live \cap live' : handles'[m] = handles[m]
      /\ (call'.op \in {"acquire", "release", "length"})
           => (live' = live /\ handles' = handles /\ fds' = fds /\ fmds' = fmds
                 /\ views' = views /\ files' = files)
      /\ \A m \in live \ live' : call'.op = "close" /\ call'.m = m
      /\ (call.op = "length" /\ call'.op = "length" /\ call'.m = call.m)
           => call'.ret = call.ret ]_vars

\* C18 happens: release on one of two open regions, without an acquire before
C18_Witness ==
  /\ call.op = "release" /\ Cardinality(live) = 2
  /\ handles[call.m].ptr \in DOMAIN views

\* the size open_rest works with after "fix map size": the size parameter,
\* or with 'e' the rest of the file behind the offset (nothing if there is none)
EffSize ==
  IF CallTag.end # 0
  THEN (IF call.off > CallFileLen THEN 0 ELSE CallFileLen - call.off)
  ELSE call.sz

\* C19: after a successful open where the granularity g is positive, the
\* stored shift is offset mod g, the offset given to the native mapping call
\* is offset - shift, a multiple of g, the stored length is the effective
\* size plus the shift, and length - shift does not underflow.
C19_ShiftAndLength ==
  (Opened /\ psize > 0) =>
    /\ Region.shift = call.off % psize
    /\ Region.shift >= 0 /\ Region.shift < psize
    /\ Region.len = EffSize + Region.shift
    /\ Region.shift <= Region.len
    /\ mmapio_length(World, call.ret) = Region.len - Region.shift
    /\ (Region.ptr \in DOMAIN views =>
          /\ views[Region.ptr].off = call.off - Region.shift
          /\ views[Region.ptr].off % psize = 0
          /\ views[Region.ptr].len = Region.len)

\* C19 happens: a region mapped from the second page on, with a shift
C19_Witness ==
  /\ Opened /\ psize > 0 /\ Region.shift > 0
  /\ Region.ptr \in DOMAIN views /\ views[Region.ptr].off > 0

\* the most recent open call got as far as adding the shift to the size:
\* the file was opened, the struct allocated, the flag set, the size accepted
ReachedAddition ==
  /\ call.op = "open" /\ call.nm = "file" /\ build.os # mmapio_os_none /\ psize > 0
  /\ call.fail \in {"none", "map", "view"}
  /\ (build.os = MMAPIO_OS_WIN32 =>
        /\ (CallTag.end # 0 => call.off <= CallFileLen)
        /\ (CallTag.end = 0 => call.sz # 0))

\* C20: when size + shift would exceed the largest size_t, open returns NULL
\* with errno ERANGE, the file handle closed and the struct freed; in every
\* other case the addition goes ahead and the stored length is the exact sum.
C20_RangeExact ==
  ReachedAddition =>
    IF EffSize + (call.off % psize) > SizeMax
    THEN call.ret = NULL /\ errno = "ERANGE" /\ NothingHeld
    ELSE /\ errno # "ERANGE"
         /\ (call.ret # NULL => Region.len = EffSize + (call.off % psize))

\* C20 (amended): when size + shift would reach or exceed the largest
\* size_t, open returns NULL with errno ERANGE, the file handle closed and
\* the struct freed; in every other case the addition goes ahead and the
\* stored length is the exact sum.
C20_RangeExactBelowMax ==
  ReachedAddition =>
    IF EffSize + (call.off % psize) >= SizeMax
    THEN call.ret = NULL /\ errno = "ERANGE" /\ NothingHeld
    ELSE /\ errno # "ERANGE"
         /\ (call.ret # NULL => Region.len = EffSize + (call.off % psize))

\* C20 happens: a sum beyond the largest size_t was refused
C20_Witness ==
  /\ ReachedAddition /\ EffSize + (call.off % psize) > SizeMax
  /\ call.ret = NULL /\ errno = "ERANGE"

\* C21: after a successful open where the granularity query failed or gave
\* a value <= 0, the stored shift is 0, the offset and the size went to the
\* native mapping call as they were, the length is the effective size and
\* the acquire pointer is the base pointer; no stored field is undefined.
C21_NoGranularityNoShift ==
  (Opened /\ psize <= 0) =>
    /\ Region.shift = 0
    /\ Region.len = EffSize
    /\ mmapio_length(World, call.ret) = EffSize
    /\ mmapio_acquire(World, call.ret) = [base |-> Region.ptr, off |-> 0]
    /\ (Region.ptr \in DOMAIN views =>
          views[Region.ptr].off = call.off /\ views[Region.ptr].len = EffSize)

\* n rounded up to the next multiple of g, in unbounded integers
RoundUp(n, g) == IF n % g = 0 THEN n ELSE n + (g - (n % g))

\* the most recent open call, on the Win32 backend with a positive
\* granularity, got past the range fix to "adjust the size"
ReachedRounding ==
  /\ ReachedAddition /\ build.os = MMAPIO_OS_WIN32
  /\ EffSize + (call.off % psize) < SizeMax

\* C22: on the Win32 backend with granularity g > 0 the size of the mapping
\* object is size + shift rounded up to the next multiple of g without
\* wrapping, the maximum size given to CreateFileMapping is the smaller of
\* the file size and rounded size + corrected offset, it never exceeds the
\* file size, and it covers the whole view when the requested range lies
\* inside the file.
C22_MappingObjectSize ==
  ReachedRounding =>
    LET fix == page_fix(psize, EffSize, call.off)
        ext == win32_extended_size(psize, EffSize, fix.fullsize)
        max == win32_fullextent(CallFileLen, ext, fix.fulloff)
        want == RoundUp(fix.fullsize, psize) + fix.fulloff
    IN /\ ext = RoundUp(fix.fullsize, psize)
       /\ max = (IF CallFileLen < want THEN CallFileLen ELSE want)
       /\ max <= CallFileLen
       /\ (call.off + EffSize <= CallFileLen => max >= fix.fulloff + fix.fullsize)

\* C23: distinct regions are independent: acquire, release, length and close
\* on one region leave every other open region open, with the same stored
\* fields, the same length and the same acquire pointer, and with its file
\* handle, its mapping object and its view as they were.
C23_RegionsIndependent ==
  [][ (call'.op \in {"acquire", "release", "length", "close"}) =>
        \A h \in live \ {call'.m} :
          /\ h \in live'
          /\ handles'[h] = handles[h]
          /\ mmapio_length(World', h) = mmapio_length(World, h)
          /\ mmapio_acquire(World', h) = mmapio_acquire(World, h)
          /\ (handles[h].fd \in DOMAIN fds =>
                handles[h].fd \in DOMAIN fds' /\ fds'[handles[h].fd] = fds[handles[h].fd])
          /\ (handles[h].fmd \in DOMAIN fmds =>
                handles[h].fmd \in DOMAIN fmds' /\ fmds'[handles[h].fmd] = fmds[handles[h].fmd])
          /\ (handles[h].ptr \in DOMAIN views =>
                handles[h].ptr \in DOMAIN views'
                  /\ views'[handles[h].ptr] = views[handles[h].ptr]) ]_vars

\* C23 happens: one of two regions of the same file was closed and the other
\* is open with its file handle and its view
C23_Witness ==
  /\ call.op = "close" /\ Cardinality(live) = 1
  /\ \A h \in live : handles[h].fd \in DOMAIN fds /\ handles[h].ptr \in DOMAIN views

\* C24: an open call on a path that names no existing file returns NULL and
\* creates no file, on every backend, for every entry point and mode text.
C24_MissingFileStaysMissing ==
  (call.op = "open" /\ call.nm # "file") =>
    /\ call.ret = NULL
    /\ DOMAIN files = {"file"}
    /\ NothingHeld

\* the characters of the C string c in front of its first NUL, the first 8
\* of them if there are more
Examined(c) ==
  LET nul == {i \in 1 .. Len(c) : c[i] = 0}
      stop == IF nul = {} THEN Len(c)
              ELSE (CHOOSE i \in nul : \A j \in nul : i <= j) - 1
  IN SubSeq(c, 1, IF stop > 8 THEN 8 ELSE stop)

\* the buffer cut off right behind the last character a scan of at most 8
\* characters that stops at the first NUL may read
Buffer(c) == IF Len(Examined(c)) = 8 THEN Examined(c) ELSE Examined(c) \o <<0>>

RECURSIVE Descriptor(_, _)
\* the descriptor built from every character of t, one after the other
Descriptor(t, out) ==
  IF t = <<>> THEN out ELSE Descriptor(Tail(t), ParseChar(out, Head(t)))

\* C25: mmapio_mode_parse ends after examining at most 8 characters: it stops
\* at the first NUL and reads nothing behind it, and without a NUL among the
\* first 8 characters it stops behind the 8th; the descriptor is built from
\* the characters examined only, and a buffer that ends there is enough.
C25_ParseBounded ==
  output.kind # "none" =>
    /\ output.tag = Descriptor(Examined(CString(output.text)), ZeroTag)
    /\ mmapio_mode_parse(Buffer(CString(output.text))) = output.tag

\* C25 happens: a token behind the first NUL, which would have changed the
\* descriptor, was not read
C25_Witness ==
  /\ output.kind = "beyond"
  /\ Descriptor(output.text, ZeroTag) # output.tag

\* the byte of the file at position k, 0 behind its end
FileByteAt(k) == IF k < FileLen THEN FileBytes[k + 1] ELSE 0

\* C26: dump (file) (mode) (offset) (length) maps the region that starts at
\* byte offset, its third argument, and has length bytes, its fourth, and
\* after a successful open prints exactly the mmapio_length bytes of that
\* region and closes the handle once.
C26_DumpMapsOffsetLength ==
  (call.op = "close" /\ call.fail = "none") =>
    /\ Len(output) = input.argv4
    /\ \A i \in 1 .. Len(output) : output[i] = FileByteAt(input.argv3 + i - 1)
    /\ NothingHeld

====
